---- MODULE Spec2Model ----
(***************************************************************************)
(* Model of the Xero OAuth backend: the used-code tracker and its sweep,   *)
(* the POST /xero/callback exchange coordinator, the in-memory TokenStore, *)
(* the token endpoints that read it, and the authenticateToken gate with   *)
(* the routes of routes/auth.js behind it.                                 *)
(*                                                                         *)
(* JavaScript values are encoded so that TLC can compare them:             *)
(*   - strings are TLA+ strings, the value undefined is UNDEF;             *)
(*   - numbers are records [t, v] with t in {"number","NaN","undefined"},  *)
(*     so that arithmetic on undefined yields NaN and every comparison     *)
(*     with NaN is false, as in the language;                              *)
(*   - a JSON response body is a set of <<field, value>> pairs.            *)
(* Node runs one handler at a time up to its next await, so every action   *)
(* is the code between two awaits of one request.                          *)
(***************************************************************************)
EXTENDS Integers, Sequences, FiniteSets, TLC

VARIABLES
    usedCodes,   \* routes/xero.js: const usedCodes = new Set()
    env,         \* process.env: which settings are present
    req,         \* the POST /callback requests in progress, per slot
    tokenStore,  \* services/tokenStore.js: const tokenStore = new Map()
    now,         \* Date.now(), in milliseconds
    lastResp,    \* the response most recently sent by any endpoint
    dirty,       \* history: codes that had a request in progress at the last sweep tick
    succeeded,   \* history: codes a request answered with success, wholly since the last tick
    dead,        \* history: codes a request failed with invalid_grant, wholly since the last tick
    handled,     \* history: codes a request was answered for, wholly since the last tick
    released,    \* history: codes unmarked by a catch block since they were last received
    gate,        \* history: the bearer token and the decision of the last authenticateToken call
    thrown,      \* history: the error behind the last response, when a catch block sent it
    biz          \* the request to an invoice or chat route: its downstream call, when one is pending

vars == <<usedCodes, env, req, tokenStore, now, lastResp,
          dirty, succeeded, dead, handled, released, gate, thrown, biz>>

-----------------------------------------------------------------------------
(* Bounds *)

\* number of POST /callback requests that can be in progress at once
MaxInFlight == 2

\* Date.now() stops advancing here
MaxNow == 2000

\* milliseconds between two observations of Date.now()
TickMs == 1000

\* milliseconds the clock can advance between the two Date.now() calls of one
\* storeUserTokens
MaxClockDrift == 1

-----------------------------------------------------------------------------
(* JavaScript values *)

UNDEF == "undefined"

\* !x for a string-or-undefined value
Falsy(x) == x \in {UNDEF, ""}

Truthy(x) == ~Falsy(x)

JsNum(n) == [t |-> "number", v |-> n]

JsNaN == [t |-> "NaN", v |-> 0]

JsUndef == [t |-> "undefined", v |-> 0]

\* a * k for a number-or-undefined a and a literal k
JsMul(a, k) == IF a.t = "number" THEN JsNum(a.v * k) ELSE JsNaN

\* n + b for an integer n (Date.now()) and a JavaScript number b
JsAdd(n, b) == IF b.t = "number" THEN JsNum(n + b.v) ELSE JsNaN

\* n >= b for an integer n and a JavaScript number b: false when b is NaN
JsGe(n, b) == b.t = "number" /\ n >= b.v

\* n < b for an integer n and a JavaScript number b: false when b is NaN
JsLt(n, b) == b.t = "number" /\ n < b.v

\* a || d for a number-or-undefined a: 0, NaN and undefined are falsy
JsOrNum(a, d) == IF a.t = "number" /\ a.v # 0 THEN a ELSE JsNum(d)

\* a || b for strings
JsOr(a, b) == IF Truthy(a) THEN a ELSE b

-----------------------------------------------------------------------------
(* Input domains *)

Slots == 1..MaxInFlight

\* authorization codes a client can post: one of length 5, one of length 13
Codes == {"short", "code-00000001"}

Users == {"ann@x.io", "sub-1"}

AccessTokens == {"at1", "at2"}

RefreshTokens == {"rt1"}

Tenants == {"tenant-1"}

\* process.env configurations: all set, or one of the three required ones missing
Envs ==
    { [client_id |-> x[1], client_secret |-> x[2], callback_url |-> x[3],
       tenant_id |-> "tenant-0", production |-> x[4]] :
        x \in { <<TRUE, TRUE, TRUE, FALSE>>, <<TRUE, TRUE, TRUE, TRUE>>,
                <<FALSE, TRUE, TRUE, FALSE>>, <<TRUE, FALSE, TRUE, FALSE>>,
                <<TRUE, TRUE, FALSE, FALSE>> } }

\* upstream ID tokens: absent, not three segments, undecodable payload, or claims
NoIdToken == [present |-> FALSE, segments |-> 0, json_ok |-> FALSE, email |-> UNDEF, sub |-> UNDEF]

IdTokens ==
    { NoIdToken,
      [present |-> TRUE, segments |-> 2, json_ok |-> TRUE, email |-> "ann@x.io", sub |-> "sub-1"],
      [present |-> TRUE, segments |-> 3, json_ok |-> FALSE, email |-> UNDEF, sub |-> UNDEF] }
    \cup { [present |-> TRUE, segments |-> 3, json_ok |-> TRUE, email |-> e, sub |-> s] :
             e \in {UNDEF, "ann@x.io"}, s \in {UNDEF, "sub-1"} }

\* expires_in as the upstream or a client may send it: absent, negative, 0, or seconds
Lifetimes == {JsUndef, JsNum(-1), JsNum(0), JsNum(1), JsNum(2)}

\* how far the second Date.now() of a storeUserTokens call is past the first
ClockDrifts == 0 .. MaxClockDrift

\* the tokens argument of storeUserTokens
StorableTokens ==
    [access_token : AccessTokens, refresh_token : RefreshTokens \cup {UNDEF},
     expires_in : Lifetimes, tenant_id : Tenants \cup {"tenant-0"}]

\* response.data of a successful token exchange
TokenSets ==
    [access_token : AccessTokens, refresh_token : RefreshTokens, id_token : IdTokens,
     expires_in : Lifetimes, token_type : {"Bearer"}]

NoTokenSet ==
    [access_token |-> UNDEF, refresh_token |-> UNDEF, id_token |-> NoIdToken,
     expires_in |-> JsUndef, token_type |-> UNDEF]

\* what axios.post throws: an upstream response (with or without an OAuth error
\* code), no response at all (network failure, timeout), or any other exception
ExchangeErrors ==
    { [kind |-> "response", status |-> st, error |-> e] :
        st \in {400, 401, 500},
        e \in {UNDEF, "invalid_grant", "invalid_client", "unauthorized_client", "invalid_request"} }
    \cup { [kind |-> "request", status |-> 0, error |-> UNDEF],
           [kind |-> "other", status |-> 0, error |-> UNDEF] }

\* what GET /connections yields: an error, or a body that is a list or null
TenantResults ==
    { [ok |-> FALSE, isnull |-> FALSE, list |-> << >>],
      [ok |-> TRUE, isnull |-> TRUE, list |-> << >>],
      [ok |-> TRUE, isnull |-> FALSE, list |-> << >>],
      [ok |-> TRUE, isnull |-> FALSE, list |-> <<"tenant-1">>] }

\* the iss claims of bearer tokens: absent, the upstream's, another issuer's
Issuers == {UNDEF, "https://identity.xero.com", "https://login.example.com"}

\* the exp claims of bearer tokens, in seconds: absent, the epoch, one second
\* after it, and one hour after that
Expiries == {JsUndef, JsNum(0), JsNum(1), JsNum(3601)}

\* what the Authorization header of a request yields: no token, a token that
\* jwt.decode cannot read, or a token with the claims the middleware reads
NoBearer ==
    [present |-> FALSE, decodes |-> FALSE, iss |-> UNDEF, aud |-> UNDEF, exp |-> JsUndef,
     email |-> UNDEF, sub |-> UNDEF, xero_userid |-> UNDEF]

DecodedBearers ==
    [present : {TRUE}, decodes : {TRUE}, iss : Issuers, aud : {UNDEF, "client-1"},
     exp : Expiries, email : {UNDEF, "ann@x.io"}, sub : {UNDEF, "sub-1"},
     xero_userid : {UNDEF, "xu-1"}]

\* tokens without iss or aud are told apart by those two claims only
Bearers ==
    { NoBearer, [NoBearer EXCEPT !.present = TRUE] }
    \cup { b \in DecodedBearers :
             (b.iss = UNDEF \/ b.aud = UNDEF)
                => (/\ b.exp = JsNum(3601)
                    /\ b.email = "ann@x.io"
                    /\ b.sub = "sub-1"
                    /\ b.xero_userid = UNDEF) }

\* req.user before authenticateToken has set it
NoUser == [id |-> UNDEF, email |-> UNDEF, sub |-> UNDEF, xero_userid |-> UNDEF]

\* no authenticateToken call has been made yet
NoGate == [bearer |-> NoBearer, at |-> 0, decision |-> "none", user |-> NoUser]

\* req.body.extractedData of POST /create-xero-invoice: absent, present without
\* what an invoice needs, or present with it
ExtractedData == {"absent", "insufficient", "complete"}

\* no invoice or chat request has been made, and no downstream call is pending
IdleBiz == [pc |-> "idle", route |-> "none", data |-> "absent", userId |-> UNDEF,
            token |-> UNDEF, tenant |-> UNDEF]

-----------------------------------------------------------------------------
(* Responses *)

Resp(ep, status, error, code, body) ==
    [ep |-> ep, status |-> status, error |-> error, code |-> code, body |-> body]

NoResp == Resp("none", 0, "", UNDEF, {})

ERR_MISSING == "No authorization code provided"

ERR_USED == "Authorization code has already been used"

ERR_MALFORMED == "Invalid authorization code format"

ERR_CONFIG == "Server configuration error - missing environment variables"

-----------------------------------------------------------------------------
(* Token Store: services/tokenStore.js *)

\* the record storeUserTokens builds: expires_at from the first Date.now(),
\* which reads t, stored_at from the second, which reads t2
TokenRecord(tokens, t, t2) ==
    [access_token |-> tokens.access_token,
     refresh_token |-> tokens.refresh_token,
     expires_at |-> JsAdd(t, JsMul(tokens.expires_in, 1000)),
     tenant_id |-> tokens.tenant_id,
     stored_at |-> t2]

\* a store whose keys all lead to one shared record
storeUserTokens_linked(store, userId, tokens, t, t2) ==
    [u \in (DOMAIN store) \cup {userId} |-> TokenRecord(tokens, t, t2)]

\* a store that leaves an existing record in place
storeUserTokens_keep(store, userId, tokens, t, t2) ==
    [u \in (DOMAIN store) \cup {userId} |->
        IF u \in DOMAIN store THEN store[u] ELSE TokenRecord(tokens, t, t2)]

\* storeUserTokens(userId, tokens): Map.set, a full replace
storeUserTokens(store, userId, tokens, t, t2) ==
    [u \in (DOMAIN store) \cup {userId} |->
        IF u = userId THEN TokenRecord(tokens, t, t2) ELSE store[u]]

\* a clear that empties the whole map
clearUserTokens_all(store, userId) ==
    [u \in {} |-> 0]

\* clearUserTokens(userId): Map.delete
clearUserTokens(store, userId) ==
    [u \in (DOMAIN store) \ {userId} |-> store[u]]

\* the expiry test of getUserTokens
IsExpired(rec, t) == JsGe(t, rec.expires_at)

\* getUserTokens(userId): whether a record is returned at time t
getUserTokensFound(store, userId, t) ==
    /\ userId \in DOMAIN store
    /\ ~IsExpired(store[userId], t)

\* getUserTokens(userId): the store after the call (lazy eviction)
getUserTokensStore(store, userId, t) ==
    IF userId \in DOMAIN store /\ IsExpired(store[userId], t)
    THEN clearUserTokens(store, userId)
    ELSE store

\* hasValidTokens(userId): tokens !== null && tokens.access_token, which is
\* the access token itself when a record is returned and false otherwise
hasValidTokens(store, userId, t) ==
    IF getUserTokensFound(store, userId, t) THEN store[userId].access_token ELSE "false"

\* a lookup that returns the token of an expired record too
getAccessToken_ignoreExpiry(store, userId, t) ==
    IF userId \in DOMAIN store THEN store[userId].access_token ELSE "null"

\* getAccessToken(userId)
getAccessToken(store, userId, t) ==
    IF getUserTokensFound(store, userId, t) THEN store[userId].access_token ELSE "null"

\* getTenantId(userId)
getTenantId(store, userId, t) ==
    IF getUserTokensFound(store, userId, t) THEN store[userId].tenant_id ELSE "null"

EmptyStore == [u \in {} |-> 0]

-----------------------------------------------------------------------------
(* Used-Code Tracker and POST /xero/callback: routes/xero.js *)

\* a dedup check that never finds the code
hasBeenUsed_never(used, code) == FALSE

\* usedCodes.has(code)
hasBeenUsed(used, code) == code \in used

\* a mark that inserts nothing
markUsed_noop(used, code) == used

\* usedCodes.add(code)
markUsed(used, code) == used \cup {code}

\* usedCodes.delete(code)
unmark(used, code) == used \ {code}

\* a sweep that spares one code
sweepClear_keepOne(used) == IF used = {} THEN {} ELSE {CHOOSE c \in used : TRUE}

\* the setInterval callback: usedCodes.clear()
sweepClear(used) == {}

\* code.length < 10
MinCodeLength == 10

isMalformed(code) == Len(code) < MinCodeLength

\* !client_id || !client_secret || !callback_url
isMisconfigured(e) == ~e.client_id \/ ~e.client_secret \/ ~e.callback_url

\* the synchronous part of the handler, up to the exchange call: where it ends
preExchange(used, e, code) ==
    IF Falsy(code) THEN "missing"
    ELSE IF hasBeenUsed(used, code) THEN "used"
    ELSE IF isMalformed(code) THEN "malformed"
    ELSE IF isMisconfigured(e) THEN "misconfigured"
    ELSE "exchange"

\* a duplicate whose rejection takes the mark away
preExchangeUsed_unmarkDuplicate(used, e, code) ==
    IF Falsy(code) THEN used
    ELSE IF hasBeenUsed(used, code) THEN unmark(used, code)
    ELSE markUsed(used, code)

\* the mark moved behind the format and configuration checks
preExchangeUsed_afterChecks(used, e, code) ==
    IF Falsy(code) \/ hasBeenUsed(used, code) \/ isMalformed(code) \/ isMisconfigured(e)
    THEN used ELSE markUsed(used, code)

\* the used-code set after the synchronous part
preExchangeUsed(used, e, code) ==
    IF Falsy(code) \/ hasBeenUsed(used, code) THEN used ELSE markUsed(used, code)

\* the response of a request that ends before the exchange call
preExchangeResp(outcome, code) ==
    CASE outcome = "missing"       -> Resp("callback", 400, ERR_MISSING, code, {})
      [] outcome = "used"          -> Resp("callback", 400, ERR_USED, code, {})
      [] outcome = "malformed"     -> Resp("callback", 400, ERR_MALFORMED, code, {})
      [] outcome = "misconfigured" -> Resp("callback", 500, ERR_CONFIG, code, {})

\* a catch block that never removes the code
shouldUnmark_never(code, err) == FALSE

\* a catch block that removes the code whatever the error
shouldUnmark_always(code, err) == Truthy(code)

\* the condition of the catch block: req.body.code && error.response?.data?.error !== 'invalid_grant'
shouldUnmark(code, err) == Truthy(code) /\ err.error # "invalid_grant"

\* the used-code set after the catch block
catchUsed(used, code, err) ==
    IF shouldUnmark(code, err) THEN unmark(used, code) ELSE used

\* the switch over xeroError.error
errorMessage(e) ==
    CASE e = "unauthorized_client" -> "Xero App Configuration Error"
      [] e = "invalid_grant"       -> "Authorization Code Error"
      [] e = "invalid_client"      -> "Invalid Client Credentials"
      [] e = "invalid_request"     -> "Invalid OAuth Request"
      [] OTHER                     -> e

\* an error translation that answers 500 whatever the error
catchResp_always500(code, err) ==
    Resp("callback", 500, "Token exchange failed", code, {})

\* the error translation of the catch block
catchResp(code, err) ==
    IF err.kind = "response" /\ Truthy(err.error)
    THEN Resp("callback", 400, errorMessage(err.error), code, {<<"xeroErrorCode", err.error>>})
    ELSE IF err.kind = "response" /\ err.status = 400
    THEN Resp("callback", 400, "Bad Request - OAuth Configuration Issue", code, {})
    ELSE IF err.kind = "response" /\ err.status = 401
    THEN Resp("callback", 401, "Unauthorized - Invalid client credentials", code, {})
    ELSE IF err.kind = "request"
    THEN Resp("callback", 503, "Service unavailable - Could not reach Xero token endpoint", code, {})
    ELSE Resp("callback", 500, "Token exchange failed", code, {})

\* no catch block was entered
NoError == [kind |-> "none", status |-> 0, error |-> UNDEF]

\* the TypeError thrown by tenants.length when tenants is null
TypeError == [kind |-> "other", status |-> 0, error |-> UNDEF]

NoUserInfo == [isnull |-> TRUE, email |-> UNDEF, sub |-> UNDEF]

\* the ID-token decoding: three segments, base64 and JSON, else user_info stays null
decodeIdToken(id_token) ==
    IF ~id_token.present THEN NoUserInfo
    ELSE IF id_token.segments # 3 THEN NoUserInfo
    ELSE IF ~id_token.json_ok THEN NoUserInfo
    ELSE [isnull |-> FALSE, email |-> id_token.email, sub |-> id_token.sub]

\* an identity test that is content with any decoded payload
hasIdentity_any(user_info) == ~user_info.isnull

\* user_info && (user_info.email || user_info.sub)
hasIdentity(user_info) ==
    ~user_info.isnull /\ (Truthy(user_info.email) \/ Truthy(user_info.sub))

\* tenants after the tenant-discovery try/catch: "null" stands for a null body
tenantsIsNull(tres) == tres.ok /\ tres.isnull

tenantsList(tres) == IF tres.ok /\ ~tres.isnull THEN tres.list ELSE << >>

\* tenants.length > 0 ? tenants[0].tenantId : process.env.XERO_TENANT_ID
tenantIdFor(tres, e) ==
    IF Len(tenantsList(tres)) > 0 THEN tenantsList(tres)[1] ELSE e.tenant_id

\* a persist step that evaluates tenants.length whether or not there is an identity
persistThrows_always(user_info, tres) == tenantsIsNull(tres)

\* building tokensToStore evaluates tenants.length: it throws when tenants is null
persistThrows(user_info, tres) == hasIdentity(user_info) /\ tenantsIsNull(tres)

tokensToStore(tokens, tres, e) ==
    [access_token |-> tokens.access_token,
     refresh_token |-> tokens.refresh_token,
     expires_in |-> tokens.expires_in,
     tenant_id |-> tenantIdFor(tres, e)]

\* a persist step that stores under the email only
persist_emailOnly(store, tokens, user_info, tres, e, t, t2a, t2b) ==
    IF ~hasIdentity(user_info) THEN store
    ELSE IF Truthy(user_info.email)
    THEN storeUserTokens(store, user_info.email, tokensToStore(tokens, tres, e), t, t2a)
    ELSE store

\* the Token Store after the persist step; t2a and t2b are the second clock
\* readings of the two storeUserTokens calls
persist(store, tokens, user_info, tres, e, t, t2a, t2b) ==
    IF ~hasIdentity(user_info) THEN store
    ELSE LET tts == tokensToStore(tokens, tres, e)
             s1 == IF Truthy(user_info.email)
                   THEN storeUserTokens(store, user_info.email, tts, t, t2a)
                   ELSE store
         IN  IF Truthy(user_info.sub) /\ user_info.sub # user_info.email
             THEN storeUserTokens(s1, user_info.sub, tts, t, t2b)
             ELSE s1

\* userId of the response: email || sub, or null
responseUserId(user_info) ==
    IF hasIdentity(user_info) THEN JsOr(user_info.email, user_info.sub) ELSE "null"

\* the tenants field of the response: the first tenant of the list, "[]" for
\* an empty list or a failed discovery, "null" for a null body
responseTenants(tres) ==
    IF tenantsIsNull(tres) THEN "null"
    ELSE IF Len(tenantsList(tres)) > 0 THEN tenantsList(tres)[1]
    ELSE "[]"

\* the user_info field of the response: null or the decoded payload
responseUserInfo(user_info) == IF user_info.isnull THEN "null" ELSE "payload"

\* responseData of a successful callback
successResp(code, tokens, user_info, tres) ==
    Resp("callback", 200, "", code,
         { <<"access_token", tokens.access_token>>,
           <<"refresh_token", tokens.refresh_token>>,
           <<"token_type", tokens.token_type>>,
           <<"user_info", responseUserInfo(user_info)>>,
           <<"tenants", responseTenants(tres)>>,
           <<"userId", responseUserId(user_info)>> })

IdleReq ==
    [pc |-> "idle", code |-> UNDEF, swept |-> FALSE, tokens |-> NoTokenSet, user_info |-> NoUserInfo]

\* codes of the requests in progress
InProgress == { req[r].code : r \in { x \in Slots : req[x].pc # "idle" } }

-----------------------------------------------------------------------------
(* Initial state: the process has just started *)

Init ==
    /\ usedCodes = {}
    /\ env \in Envs
    /\ req = [r \in Slots |-> IdleReq]
    /\ tokenStore = EmptyStore
    /\ now = 0
    /\ lastResp = NoResp
    /\ dirty = {}
    /\ succeeded = {}
    /\ dead = {}
    /\ handled = {}
    /\ released = {}
    /\ gate = NoGate
    /\ thrown = NoError
    /\ biz = IdleBiz

-----------------------------------------------------------------------------
(* POST /xero/callback *)

\* a request arrives and runs up to the await of the token exchange
CallbackReceive(r, code) ==
    LET outcome == preExchange(usedCodes, env, code) IN
    /\ req[r].pc = "idle"
    /\ usedCodes' = preExchangeUsed(usedCodes, env, code)
    /\ IF outcome = "exchange"
       THEN /\ req' = [req EXCEPT ![r] = [IdleReq EXCEPT !.pc = "exchange", !.code = code]]
            /\ UNCHANGED <<lastResp, handled, thrown>>
       ELSE /\ lastResp' = preExchangeResp(outcome, code)
            /\ thrown' = NoError
            /\ handled' = IF Truthy(code) THEN handled \cup {code} ELSE handled
            /\ UNCHANGED req
    /\ released' = released \ {code}
    /\ UNCHANGED <<env, tokenStore, now, dirty, succeeded, dead, gate, biz>>

\* the catch block, entered with error err by the request in slot r
CatchBlock(r, err) ==
    LET code == req[r].code IN
    /\ usedCodes' = catchUsed(usedCodes, code, err)
    /\ lastResp' = catchResp(code, err)
    /\ thrown' = err
    /\ req' = [req EXCEPT ![r] = IdleReq]
    /\ released' = IF shouldUnmark(code, err) THEN released \cup {code} ELSE released
    /\ handled' = IF req[r].swept THEN handled ELSE handled \cup {code}
    /\ dead' = IF ~req[r].swept /\ err.error = "invalid_grant" THEN dead \cup {code} ELSE dead
    /\ UNCHANGED <<env, tokenStore, now, dirty, succeeded, gate, biz>>

\* the token exchange fails: axios.post throws err
ExchangeFails(r, err) ==
    /\ req[r].pc = "exchange"
    /\ CatchBlock(r, err)

\* the token exchange succeeds: the ID token is decoded and the handler
\* awaits the tenant discovery call
ExchangeSucceeds(r, tokens) ==
    /\ req[r].pc = "exchange"
    /\ req' = [req EXCEPT ![r].pc = "tenants",
                          ![r].tokens = tokens,
                          ![r].user_info = decodeIdToken(tokens.id_token)]
    /\ UNCHANGED <<usedCodes, env, tokenStore, now, lastResp,
                   dirty, succeeded, dead, handled, released, gate, thrown, biz>>

\* a handler that writes the store before it reads tenants.length
TenantsReturn_storeBeforeThrow(r, tres, d1, d2) ==
    /\ req[r].pc = "tenants"
    /\ tokenStore' = persist(tokenStore, req[r].tokens, req[r].user_info, tres, env,
                             now, now + d1, now + d2)
    /\ req' = [req EXCEPT ![r] = IdleReq]
    /\ IF persistThrows(req[r].user_info, tres)
       THEN /\ usedCodes' = catchUsed(usedCodes, req[r].code, TypeError)
            /\ lastResp' = catchResp(req[r].code, TypeError)
            /\ thrown' = TypeError
            /\ released' = released \cup {req[r].code}
            /\ handled' = IF req[r].swept THEN handled ELSE handled \cup {req[r].code}
            /\ UNCHANGED <<env, now, dirty, succeeded, dead, gate, biz>>
       ELSE /\ lastResp' = successResp(req[r].code, req[r].tokens, req[r].user_info, tres)
            /\ thrown' = NoError
            /\ succeeded' = IF req[r].swept THEN succeeded ELSE succeeded \cup {req[r].code}
            /\ handled' = IF req[r].swept THEN handled ELSE handled \cup {req[r].code}
            /\ UNCHANGED <<usedCodes, env, now, dirty, dead, released, gate, biz>>

\* the tenant discovery call returns: persist and respond, or the TypeError
\* of tenants.length on a null body lands in the catch block; d1 and d2 are
\* the clock drifts inside the two storeUserTokens calls
TenantsReturn(r, tres, d1, d2) ==
    /\ req[r].pc = "tenants"
    /\ IF persistThrows(req[r].user_info, tres)
       THEN CatchBlock(r, TypeError)
       ELSE /\ tokenStore' = persist(tokenStore, req[r].tokens, req[r].user_info, tres, env,
                                    now, now + d1, now + d2)
            /\ lastResp' = successResp(req[r].code, req[r].tokens, req[r].user_info, tres)
            /\ thrown' = NoError
            /\ req' = [req EXCEPT ![r] = IdleReq]
            /\ succeeded' = IF req[r].swept THEN succeeded ELSE succeeded \cup {req[r].code}
            /\ handled' = IF req[r].swept THEN handled ELSE handled \cup {req[r].code}
            /\ UNCHANGED <<usedCodes, env, now, dirty, dead, released, gate, biz>>

\* the setInterval callback fires
Sweep ==
    /\ usedCodes' = sweepClear(usedCodes)
    /\ req' = [r \in Slots |-> IF req[r].pc = "idle" THEN req[r]
                               ELSE [req[r] EXCEPT !.swept = TRUE]]
    /\ dirty' = InProgress
    /\ succeeded' = {}
    /\ dead' = {}
    /\ handled' = {}
    /\ released' = {}
    /\ UNCHANGED <<env, tokenStore, now, lastResp, gate, thrown, biz>>

-----------------------------------------------------------------------------
(* Token endpoints of routes/xero.js, and the clock *)

\* expires_in: expires_in || 1800
DefaultLifetime == 1800

\* tokens that pass expires_in through as it came
manualTokens_noDefault(access_token, refresh_token, expires_in, tenant_id, e) ==
    [access_token |-> access_token,
     refresh_token |-> refresh_token,
     expires_in |-> expires_in,
     tenant_id |-> JsOr(tenant_id, e.tenant_id)]

\* the tokensToStore of POST /store-tokens
manualTokens(access_token, refresh_token, expires_in, tenant_id, e) ==
    [access_token |-> access_token,
     refresh_token |-> refresh_token,
     expires_in |-> JsOrNum(expires_in, DefaultLifetime),
     tenant_id |-> JsOr(tenant_id, e.tenant_id)]

\* POST /xero/store-tokens; d is the clock drift inside storeUserTokens
StoreTokens(userId, access_token, refresh_token, expires_in, tenant_id, d) ==
    /\ IF Falsy(userId) \/ Falsy(access_token)
       THEN /\ lastResp' = Resp("store-tokens", 400, "userId and access_token are required", UNDEF, {})
            /\ UNCHANGED tokenStore
       ELSE /\ tokenStore' = storeUserTokens(tokenStore, userId,
                                 manualTokens(access_token, refresh_token, expires_in, tenant_id, env),
                                 now, now + d)
            /\ lastResp' = Resp("store-tokens", 200, "", UNDEF,
                                { <<"success", "true">>, <<"message", "Tokens stored successfully">> })
    /\ thrown' = NoError
    /\ UNCHANGED <<usedCodes, env, req, now, dirty, succeeded, dead, handled, released, gate, biz>>

\* GET /xero/tokens/status
TokensStatus(userId) ==
    /\ IF Falsy(userId)
       THEN /\ lastResp' = Resp("tokens/status", 400, "userId is required", UNDEF, {})
            /\ UNCHANGED tokenStore
       ELSE /\ tokenStore' = getUserTokensStore(tokenStore, userId, now)
            /\ lastResp' = Resp("tokens/status", 200, "", UNDEF,
                                { <<"hasValidTokens", hasValidTokens(tokenStore, userId, now)>>,
                                  <<"userId", userId>> })
    /\ thrown' = NoError
    /\ UNCHANGED <<usedCodes, env, req, now, dirty, succeeded, dead, handled, released, gate, biz>>

\* !!x as a JSON value
Flag(x) == IF Truthy(x) THEN "true" ELSE "false"

\* listAllTokens(): the redacted summary, as the fields of all entries
listAllTokens(store) ==
    UNION { { <<"hasAccessToken", Flag(store[u].access_token)>>,
              <<"hasRefreshToken", Flag(store[u].refresh_token)>>,
              <<"tenantId", store[u].tenant_id>>,
              <<"userId", u>> } : u \in DOMAIN store }

\* new Date(NaN).toISOString() throws a RangeError
listAllTokensThrows(store) ==
    \E u \in DOMAIN store : store[u].expires_at.t # "number"

\* GET /xero/tokens/debug
TokensDebug ==
    /\ lastResp' =
         IF env.production
         THEN Resp("tokens/debug", 403, "Debug endpoint not available in production", UNDEF, {})
         ELSE IF listAllTokensThrows(tokenStore)
         THEN Resp("tokens/debug", 500, "Invalid time value", UNDEF, {})
         ELSE Resp("tokens/debug", 200, "", UNDEF, listAllTokens(tokenStore))
    /\ thrown' = NoError
    /\ UNCHANGED <<usedCodes, env, req, tokenStore, now, dirty, succeeded, dead, handled, released, gate, biz>>

\* time passes
Tick ==
    /\ now < MaxNow
    /\ now' = now + TickMs
    /\ UNCHANGED <<usedCodes, env, req, tokenStore, lastResp,
                   dirty, succeeded, dead, handled, released, gate, thrown, biz>>

-----------------------------------------------------------------------------
(* The gate: authenticateToken, and the routes of routes/auth.js behind it *)

ERR_NO_TOKEN == "Access token required"

ERR_FORMAT == "Invalid token format"

ERR_EXPIRED == "Token has expired"

ERR_NO_XERO_ID == "Invalid Xero token - missing user identifier"

ERR_NO_ID == "Invalid token - missing user identifier"

\* payload.iss.includes('xero')
includesXero(iss) == iss = "https://identity.xero.com"

\* a truthy number: neither 0 nor NaN nor undefined
JsTruthyNum(a) == a.t = "number" /\ a.v # 0

\* payload.exp && Date.now() >= payload.exp * 1000
tokenExpired(payload, t) == JsTruthyNum(payload.exp) /\ JsGe(t, JsMul(payload.exp, 1000))

\* an identifier that prefers the subject to the email
userIdentifier_subFirst(payload) ==
    IF includesXero(payload.iss)
    THEN JsOr(JsOr(payload.sub, payload.email), payload.xero_userid)
    ELSE JsOr(payload.sub, payload.email)

\* userIdentifier: email || sub || xero_userid for an issuer that contains
\* 'xero', email || sub for any other
userIdentifier(payload) ==
    IF includesXero(payload.iss)
    THEN JsOr(JsOr(payload.email, payload.sub), payload.xero_userid)
    ELSE JsOr(payload.email, payload.sub)

\* the error authenticateToken answers with, or "next" when it calls next()
gateDecision(bearer, t) ==
    IF ~bearer.present THEN ERR_NO_TOKEN
    ELSE IF ~bearer.decodes THEN ERR_FORMAT
    ELSE IF Falsy(bearer.iss) \/ Falsy(bearer.aud) THEN ERR_FORMAT
    ELSE IF tokenExpired(bearer, t) THEN ERR_EXPIRED
    ELSE IF Falsy(userIdentifier(bearer))
    THEN (IF includesXero(bearer.iss) THEN ERR_NO_XERO_ID ELSE ERR_NO_ID)
    ELSE "next"

\* the status of a rejection
gateStatus(decision) == IF decision = ERR_NO_TOKEN THEN 401 ELSE 403

\* req.user = {...payload, email, id, sub}
reqUser(payload) ==
    [id |-> userIdentifier(payload),
     email |-> JsOr(payload.email, userIdentifier(payload)),
     sub |-> JsOr(payload.sub, userIdentifier(payload)),
     xero_userid |-> payload.xero_userid]

\* what one authenticateToken call leaves behind
gateRecord(bearer, t) ==
    [bearer |-> bearer, at |-> t, decision |-> gateDecision(bearer, t),
     user |-> IF gateDecision(bearer, t) = "next" THEN reqUser(bearer) ELSE NoUser]

\* req.user.email || req.user.sub || req.user.id
handlerUserId(user) == JsOr(JsOr(user.email, user.sub), user.id)

\* GET /api/auth/me
AuthMe(bearer) ==
    LET g == gateRecord(bearer, now)
        userId == handlerUserId(g.user)
    IN
    /\ gate' = g
    /\ lastResp' =
         IF g.decision # "next"
         THEN Resp("auth/me", gateStatus(g.decision), g.decision, UNDEF, {})
         ELSE Resp("auth/me", 200, "", UNDEF,
                   { <<"id", userId>>,
                     <<"email", JsOr(g.user.email, userId)>>,
                     <<"name", userId>>,
                     <<"xero_userid", g.user.xero_userid>> })
    /\ thrown' = NoError
    /\ UNCHANGED <<usedCodes, env, req, tokenStore, now, dirty, succeeded, dead, handled, released, biz>>

\* GET /api/auth/status
AuthStatus(bearer) ==
    LET g == gateRecord(bearer, now)
        userId == handlerUserId(g.user)
    IN
    /\ gate' = g
    /\ IF g.decision # "next"
       THEN /\ lastResp' = Resp("auth/status", gateStatus(g.decision), g.decision, UNDEF, {})
            /\ UNCHANGED tokenStore
       ELSE /\ tokenStore' = getUserTokensStore(tokenStore, userId, now)
            /\ lastResp' = Resp("auth/status", 200, "", UNDEF,
                                { <<"authenticated", "true">>,
                                  <<"hasXeroTokens", hasValidTokens(tokenStore, userId, now)>>,
                                  <<"user.id", userId>>,
                                  <<"user.email", JsOr(g.user.email, userId)>>,
                                  <<"user.name", userId>> })
    /\ thrown' = NoError
    /\ UNCHANGED <<usedCodes, env, req, now, dirty, succeeded, dead, handled, released, biz>>

-----------------------------------------------------------------------------
(* The routes that call Xero on behalf of a request: POST /create-xero-invoice *)
(* and POST /chat/message, behind authenticateToken                            *)

ERR_XERO_AUTH == "Xero authentication required"

ERR_NO_DATA == "Extracted data is required"

ERR_INSUFFICIENT == "Insufficient data to create invoice"

ERR_HANDLER_NO_ID == "Invalid token - no user identifier found"

\* canAutoCreateInvoice(extractedData): a client name, a positive total and
\* a confidence that is absent or above 0.5
canAutoCreateInvoice(data) == data = "complete"

\* !xeroAccessToken
noAccessToken(token) == token = "null" \/ Falsy(token)

\* the request as it is answered before any downstream call
answeredBiz(route, data, userId) ==
    [IdleBiz EXCEPT !.route = route, !.data = data, !.userId = userId]

\* POST /create-xero-invoice, up to the await of createInvoice
CreateXeroInvoice(bearer, data) ==
    LET g == gateRecord(bearer, now)
        userId == handlerUserId(g.user)
        xeroAccessToken == getAccessToken(tokenStore, userId, now)
        xeroTenantId == getTenantId(tokenStore, userId, now)
        ep == "create-xero-invoice"
    IN
    /\ biz.pc = "idle"
    /\ gate' = g
    /\ thrown' = NoError
    /\ IF g.decision # "next"
       THEN /\ lastResp' = Resp(ep, gateStatus(g.decision), g.decision, UNDEF, {})
            /\ biz' = answeredBiz(ep, data, UNDEF)
            /\ UNCHANGED tokenStore
       ELSE IF Falsy(userId)
       THEN /\ lastResp' = Resp(ep, 400, ERR_HANDLER_NO_ID, UNDEF, {})
            /\ biz' = answeredBiz(ep, data, userId)
            /\ UNCHANGED tokenStore
       ELSE IF data = "absent"
       THEN /\ lastResp' = Resp(ep, 400, ERR_NO_DATA, UNDEF, {})
            /\ biz' = answeredBiz(ep, data, userId)
            /\ UNCHANGED tokenStore
       ELSE /\ tokenStore' = getUserTokensStore(tokenStore, userId, now)
            /\ IF noAccessToken(xeroAccessToken)
               THEN /\ lastResp' = Resp(ep, 401, ERR_XERO_AUTH, UNDEF, {})
                    /\ biz' = answeredBiz(ep, data, userId)
               ELSE IF ~canAutoCreateInvoice(data)
               THEN /\ lastResp' = Resp(ep, 400, ERR_INSUFFICIENT, UNDEF, {})
                    /\ biz' = answeredBiz(ep, data, userId)
               ELSE /\ biz' = [pc |-> "calling", route |-> ep, data |-> data,
                               userId |-> userId, token |-> xeroAccessToken,
                               tenant |-> xeroTenantId]
                    /\ UNCHANGED lastResp
    /\ UNCHANGED <<usedCodes, env, req, now, dirty, succeeded, dead, handled, released>>

\* POST /chat/message with a body that passes validateRequest, up to the
\* await of processMessage
ChatMessage(bearer) ==
    LET g == gateRecord(bearer, now)
        userId == handlerUserId(g.user)
        xeroAccessToken == getAccessToken(tokenStore, userId, now)
        ep == "chat/message"
    IN
    /\ biz.pc = "idle"
    /\ gate' = g
    /\ thrown' = NoError
    /\ IF g.decision # "next"
       THEN /\ lastResp' = Resp(ep, gateStatus(g.decision), g.decision, UNDEF, {})
            /\ biz' = answeredBiz(ep, "complete", UNDEF)
            /\ UNCHANGED tokenStore
       ELSE IF Falsy(userId)
       THEN /\ lastResp' = Resp(ep, 400, ERR_HANDLER_NO_ID, UNDEF, {})
            /\ biz' = answeredBiz(ep, "complete", userId)
            /\ UNCHANGED tokenStore
       ELSE /\ tokenStore' = getUserTokensStore(tokenStore, userId, now)
            /\ IF noAccessToken(xeroAccessToken)
               THEN /\ lastResp' = Resp(ep, 401, ERR_XERO_AUTH, UNDEF, {})
                    /\ biz' = answeredBiz(ep, "complete", userId)
               ELSE /\ biz' = [pc |-> "calling", route |-> ep, data |-> "complete",
                               userId |-> userId, token |-> xeroAccessToken,
                               tenant |-> UNDEF]
                    /\ UNCHANGED lastResp
    /\ UNCHANGED <<usedCodes, env, req, now, dirty, succeeded, dead, handled, released>>

\* createInvoice or processMessage settles: the result is sent, or the catch
\* block answers 500
DownstreamReturns(ok) ==
    /\ biz.pc = "calling"
    /\ lastResp' =
         IF ok
         THEN Resp(biz.route, 200, "", UNDEF, {})
         ELSE Resp(biz.route, 500,
                   IF biz.route = "chat/message" THEN "Failed to process message"
                   ELSE "Failed to create invoice in Xero",
                   UNDEF, {})
    /\ biz' = [biz EXCEPT !.pc = "idle"]
    /\ thrown' = NoError
    /\ UNCHANGED <<usedCodes, env, req, tokenStore, now, dirty, succeeded, dead,
                   handled, released, gate>>

-----------------------------------------------------------------------------
(* The exchange coordinator and the used-code tracker under concurrent      *)
(* requests and sweep ticks                                                 *)

\* successful exchanges told apart by what decides the handler's path
CallbackTokenSets ==
    { ts \in TokenSets :
        /\ ts.access_token = "at1"
        /\ ts.expires_in = JsNum(1)
        /\ ts.id_token \in { NoIdToken,
                             [present |-> TRUE, segments |-> 3, json_ok |-> TRUE,
                              email |-> "ann@x.io", sub |-> "sub-1"] } }

Next ==
    \/ \E r \in Slots, code \in Codes \cup {UNDEF} : CallbackReceive(r, code)
    \/ \E r \in Slots, err \in ExchangeErrors : ExchangeFails(r, err)
    \/ \E r \in Slots, tokens \in CallbackTokenSets : ExchangeSucceeds(r, tokens)
    \/ \E r \in Slots, tres \in TenantResults : TenantsReturn(r, tres, 0, 0)
    \/ Sweep

Spec == Init /\ [][Next]_vars

-----------------------------------------------------------------------------
(* The Token Store over time: requests handled one at a time, the clock,    *)
(* and the endpoints that write and read the store                          *)

\* successful exchanges told apart by what reaches the store
StoreTokenSets ==
    { ts \in TokenSets :
        /\ ts.access_token = "at1"
        /\ ts.expires_in \in {JsUndef, JsNum(1)}
        /\ ts.id_token = [present |-> TRUE, segments |-> 3, json_ok |-> TRUE,
                          email |-> "ann@x.io", sub |-> "sub-1"] }

StoreExchangeErrors ==
    { err \in ExchangeErrors : err.kind = "request" \/ (err.error = "invalid_grant" /\ err.status = 400) }

NextStore ==
    \/ CallbackReceive(1, "code-00000001")
    \/ \E err \in StoreExchangeErrors : ExchangeFails(1, err)
    \/ \E tokens \in StoreTokenSets : ExchangeSucceeds(1, tokens)
    \/ \E tres \in TenantResults : TenantsReturn(1, tres, 0, 0)
    \/ Sweep
    \/ \E userId \in {UNDEF, "ann@x.io"}, access_token \in {UNDEF, "at2"},
          expires_in \in Lifetimes :
            StoreTokens(userId, access_token, "rt1", expires_in, UNDEF, 0)
    \/ \E userId \in {UNDEF} \cup Users : TokensStatus(userId)
    \/ TokensDebug
    \/ Tick

SpecStore == Init /\ [][NextStore]_vars

-----------------------------------------------------------------------------
(* The two clock readings of storeUserTokens: the writers of the store with  *)
(* the clock advancing inside a call                                        *)

\* lifetimes that reach storeUserTokens: absent or one second from the
\* upstream, one second or the default from a client
ClockLifetimes == {JsUndef, JsNum(1)}

ClockTokenSets ==
    { ts \in StoreTokenSets : ts.expires_in \in ClockLifetimes }

NextClock ==
    \/ CallbackReceive(1, "code-00000001")
    \/ ExchangeFails(1, [kind |-> "request", status |-> 0, error |-> UNDEF])
    \/ \E tokens \in ClockTokenSets : ExchangeSucceeds(1, tokens)
    \/ \E tres \in TenantResults, d1, d2 \in ClockDrifts : TenantsReturn(1, tres, d1, d2)
    \/ \E userId \in {UNDEF, "ann@x.io"}, expires_in \in ClockLifetimes, d \in ClockDrifts :
            StoreTokens(userId, "at2", "rt1", expires_in, UNDEF, d)
    \/ Tick

SpecClock == Init /\ [][NextClock]_vars

-----------------------------------------------------------------------------
(* One exchange at a time with every shape of ID token and every outcome of  *)
(* the tenant discovery; a client also stores tokens under its own keys       *)

ExchangeTokenSets ==
    { ts \in TokenSets : ts.access_token = "at1" /\ ts.expires_in = JsNum(1) }

\* keys written through POST /store-tokens: one no ID token carries, one that
\* is also a subject
ManualUsers == {"zed@x.io", "sub-1"}

NextExchange ==
    \/ CallbackReceive(1, "code-00000001")
    \/ \E err \in StoreExchangeErrors : ExchangeFails(1, err)
    \/ \E tokens \in ExchangeTokenSets : ExchangeSucceeds(1, tokens)
    \/ \E tres \in TenantResults : TenantsReturn(1, tres, 0, 0)
    \/ Sweep
    \/ \E userId \in ManualUsers \cup {UNDEF} :
            StoreTokens(userId, "at2", UNDEF, JsNum(2), UNDEF, 0)

SpecExchange == Init /\ [][NextExchange]_vars

-----------------------------------------------------------------------------
(* The gate over time: every bearer token at every reading of the clock, and *)
(* the store its handlers read                                               *)

NextGate ==
    \/ \E bearer \in Bearers : AuthMe(bearer)
    \/ \E bearer \in Bearers : AuthStatus(bearer)
    \/ \E userId \in {UNDEF, "ann@x.io"} :
            StoreTokens(userId, "at2", "rt1", JsNum(1), UNDEF, 0)
    \/ Tick

\* the gate does not read process.env: a fully configured server
InitGate ==
    /\ Init
    /\ env.client_id /\ env.client_secret /\ env.callback_url /\ ~env.production

SpecGate == InitGate /\ [][NextGate]_vars

-----------------------------------------------------------------------------
(* The routes that call Xero, the store they read and the clock *)

\* bearer tokens of the Xero issuer that name a user by email, by sub or by
\* xero_userid only, with and without an expiry, and no token
BusinessBearers ==
    { NoBearer }
    \cup { b \in DecodedBearers :
              /\ b.iss = "https://identity.xero.com"
              /\ b.aud = "client-1"
              /\ b.exp \in {JsUndef, JsNum(1)}
              /\ <<b.email, b.sub, b.xero_userid>> \in
                    { <<"ann@x.io", "sub-1", UNDEF>>,
                      <<UNDEF, "sub-1", UNDEF>>,
                      <<UNDEF, UNDEF, "xu-1">> } }

NextBusiness ==
    \/ \E bearer \in BusinessBearers, data \in ExtractedData : CreateXeroInvoice(bearer, data)
    \/ \E bearer \in BusinessBearers : ChatMessage(bearer)
    \/ \E ok \in BOOLEAN : DownstreamReturns(ok)
    \/ \E userId \in Users, access_token \in {"at1", "at2"} :
            StoreTokens(userId, access_token, "rt1", JsNum(1), UNDEF, 0)
    \/ Tick

SpecBusiness == InitGate /\ [][NextBusiness]_vars

-----------------------------------------------------------------------------
(* Manual token injection: POST /store-tokens with every body, the status   *)
(* endpoint and the clock                                                   *)

\* the userId and access_token of a request: absent or present
ManualUserIds == {UNDEF} \cup Users

ManualAccessTokens == {UNDEF} \cup AccessTokens

NextManual ==
    \/ \E userId \in ManualUserIds, access_token \in ManualAccessTokens, expires_in \in Lifetimes :
            StoreTokens(userId, access_token, "rt1", expires_in, UNDEF, 0)
    \/ \E userId \in ManualUserIds : TokensStatus(userId)
    \/ Tick

SpecManual == InitGate /\ [][NextManual]_vars

-----------------------------------------------------------------------------
(* Progress of one request: the exchange call carries a timeout of ten       *)
(* seconds, so it settles; the tenant discovery call carries none, so        *)
(* nothing forces it to return                                               *)

\* the exchange call of the request in slot r settles: tokens, an upstream
\* error, or the timeout
ExchangeSettles(r) ==
    \/ \E err \in ExchangeErrors : ExchangeFails(r, err)
    \/ \E tokens \in CallbackTokenSets : ExchangeSucceeds(r, tokens)

NextLive ==
    \/ \E code \in Codes \cup {UNDEF} : CallbackReceive(1, code)
    \/ ExchangeSettles(1)
    \/ \E tres \in TenantResults : TenantsReturn(1, tres, 0, 0)
    \/ Sweep

SpecLive == Init /\ [][NextLive]_vars /\ WF_vars(ExchangeSettles(1))

-----------------------------------------------------------------------------
(* Properties of the used-code tracker and the exchange coordinator *)

\* the request in slot r is between its receipt and its response
Active(r) == req[r].pc # "idle"

\* a request carrying code c that arrives in this state is answered CodeAlreadyUsed
WouldRejectAsUsed(c) == preExchange(usedCodes, env, c) = "used"

\* a request carrying code c that arrives in this state reaches the exchange call
WouldExchange(c) == preExchange(usedCodes, env, c) = "exchange"

\* the step in which the request in slot r is answered with success
SucceedsNow(r) ==
    /\ req[r].pc = "tenants"
    /\ req'[r].pc = "idle"
    /\ lastResp'.status = 200

\* the step in which the exchange call of the request in slot r fails
ExchangeFailsNow(r) ==
    /\ req[r].pc = "exchange"
    /\ req'[r].pc = "idle"

\* the step in which the request in slot r issues its exchange call
ExchangeStartsNow(r) ==
    /\ req[r].pc = "idle"
    /\ req'[r].pc = "exchange"

\* C1 as stated: among requests carrying the same code that are received and
\* answered with no sweep tick in between, at most one is answered with success.
C1_AsStated ==
    [][\A r \in Slots : (SucceedsNow(r) /\ ~req[r].swept) => req[r].code \notin succeeded]_vars

\* C1, amended: for a code that had no request in progress when the last sweep
\* tick fired, at most one of the requests carrying it that are received and
\* answered since that tick is answered with success.
C1_AtMostOneSuccess ==
    [][\A r \in Slots :
         (SucceedsNow(r) /\ ~req[r].swept /\ req[r].code \notin dirty)
            => req[r].code \notin succeeded]_vars

\* a second request for a code was rejected after the first one succeeded
C1_Witness ==
    \E c \in succeeded :
        /\ c \notin dirty
        /\ lastResp.error = ERR_USED
        /\ lastResp.code = c

\* C2 as stated: two requests carrying the same code, neither of which saw a
\* sweep tick while in progress, never have their exchange calls in flight at once.
C2_AsStated ==
    \A r1, r2 \in Slots :
        (/\ r1 # r2
         /\ req[r1].pc = "exchange" /\ req[r2].pc = "exchange"
         /\ req[r1].code = req[r2].code)
        => (req[r1].swept \/ req[r2].swept)

\* C2, amended: while a request carrying code c is in progress and no request
\* carrying c was in progress at the last sweep tick (and none has been since),
\* a second request carrying c is rejected with CodeAlreadyUsed, and no two
\* exchange calls for c are in flight at once.
C2_NoConcurrentExchange ==
    /\ \A r \in Slots :
          (Active(r) /\ ~req[r].swept /\ req[r].code \notin dirty)
             => WouldRejectAsUsed(req[r].code)
    /\ \A r1, r2 \in Slots :
          (/\ r1 # r2
           /\ req[r1].pc = "exchange" /\ req[r2].pc = "exchange"
           /\ req[r1].code = req[r2].code)
          => req[r1].code \in dirty

\* a request was rejected as a duplicate while the first one's exchange is in flight
C2_Witness ==
    \E r \in Slots :
        /\ req[r].pc = "exchange"
        /\ ~req[r].swept
        /\ req[r].code \notin dirty
        /\ lastResp.error = ERR_USED
        /\ lastResp.code = req[r].code

\* C3 as stated: no second request carrying c is past the dedup check while the
\* first request carrying c is still in progress, sweep ticks included.
C3_AsStated ==
    \A r1, r2 \in Slots :
        (r1 # r2 /\ Active(r1) /\ Active(r2)) => req[r1].code # req[r2].code

\* C3, amended: two requests carrying the same code are in progress at once only
\* if a sweep tick fired while a request carrying that code was in progress.
C3_DoubleExchangeOnlyAfterSweep ==
    \A r1, r2 \in Slots :
        (r1 # r2 /\ Active(r1) /\ Active(r2) /\ req[r1].code = req[r2].code)
           => req[r1].code \in dirty

\* a sweep tick fired during an exchange and a second exchange for the code started
C3_Witness ==
    \E r1, r2 \in Slots :
        /\ r1 # r2
        /\ req[r1].pc = "exchange" /\ req[r1].swept
        /\ req[r2].pc = "exchange" /\ ~req[r2].swept
        /\ req[r1].code = req[r2].code

\* the response just sent reports the upstream error invalid_grant
InvalidGrantResp(resp) == <<"xeroErrorCode", "invalid_grant">> \in resp.body

\* C4: when the exchange for code c fails with anything other than
\* invalid_grant, c is out of the used-code set, and from then until a request
\* carrying c is next received (or the sweep fires) such a request is not
\* rejected as already used and reaches the exchange call.
C4_RetryAfterFailure ==
    /\ [][\A r \in Slots :
            (ExchangeFailsNow(r) /\ ~InvalidGrantResp(lastResp'))
               => (req[r].code \notin usedCodes' /\ req[r].code \in released')]_vars
    /\ [](\A c \in released : WouldExchange(c))

\* a request failed with 503 and the retry with the same code is at the exchange call
C4_Witness ==
    \E r \in Slots :
        /\ req[r].pc = "exchange"
        /\ ~req[r].swept
        /\ req[r].code \in handled
        /\ req[r].code \notin dirty
        /\ lastResp.status = 503
        /\ lastResp.code = req[r].code

\* C5 as stated: a code whose exchange failed with invalid_grant stays in the
\* used-code set until the next sweep tick, whatever other requests do.
C5_AsStated == \A c \in dead : c \in usedCodes

\* C5, amended: for a code c that had no request in progress when the last
\* sweep tick fired, once an exchange for c has failed with invalid_grant, c
\* stays in the used-code set and every request carrying c is rejected with
\* CodeAlreadyUsed until the next sweep tick.
C5_DeadCodeStaysUsed ==
    \A c \in dead \ dirty : c \in usedCodes /\ WouldRejectAsUsed(c)

\* a code failed with invalid_grant and its resubmission was rejected
C5_Witness ==
    \E c \in dead \ dirty :
        /\ lastResp.error = ERR_USED
        /\ lastResp.code = c

\* C6 as stated: a request carrying a code for which a request was already
\* handled since the last sweep tick never gets as far as the exchange call.
C6_AsStated ==
    [][\A r \in Slots : ExchangeStartsNow(r) => req'[r].code \notin handled]_vars

\* C6, amended: a request carrying a code for which a request was already
\* handled since the last sweep tick is rejected with CodeAlreadyUsed, unless
\* a request carrying the code has, since the code was last received, ended
\* in the catch block with an error other than invalid_grant.
C6_SecondSubmissionRejected ==
    \A c \in handled \ released : WouldRejectAsUsed(c)

\* a request succeeded or was refused, and the next one with its code was rejected
C6_Witness ==
    \E c \in handled \ released :
        /\ c \notin succeeded
        /\ c \notin dead
        /\ lastResp.error = ERR_USED
        /\ lastResp.code = c
        /\ \A r \in Slots : ~Active(r)

\* C7: whenever a request issues the exchange call for code c, that request
\* found c absent from the used-code set and has put it there.
C7_MarkedBeforeExchange ==
    [][\A r \in Slots :
         ExchangeStartsNow(r)
            => (/\ ~hasBeenUsed(usedCodes, req'[r].code)
                /\ hasBeenUsed(usedCodes', req'[r].code))]_vars

\* an exchange call is in flight for a code that is in the set
C7_Witness ==
    \E r \in Slots :
        /\ req[r].pc = "exchange"
        /\ ~req[r].swept
        /\ req[r].code \in usedCodes

\* C8: a code refused as malformed or because the server is misconfigured
\* stays in the used-code set: until the next sweep tick every request
\* carrying it is rejected with CodeAlreadyUsed.
C8_RefusedCodeStaysUsed ==
    \A c \in handled :
        (isMalformed(c) \/ isMisconfigured(env))
           => (c \in usedCodes /\ WouldRejectAsUsed(c))

\* a malformed code, or any code on a misconfigured server, was resubmitted and rejected
C8_Witness ==
    /\ lastResp.error = ERR_USED
    /\ lastResp.code \in handled
    /\ isMalformed(lastResp.code) \/ isMisconfigured(env)

-----------------------------------------------------------------------------
(* Properties of the Token Store and of the endpoints that read it *)

\* the raw token values held in the Token Store
StoredTokens ==
    { tokenStore[u].access_token : u \in DOMAIN tokenStore }
        \cup { tokenStore[u].refresh_token : u \in DOMAIN tokenStore }

\* the values of the fields of a response body
BodyValues(resp) == { pair[2] : pair \in resp.body }

\* C9: only the success response of POST /callback carries a raw token held in
\* the Token Store; every other response carries flags and identifiers only.
C9_OnlyCallbackReturnsTokens ==
    lastResp.ep # "callback" => BodyValues(lastResp) \cap StoredTokens = {}

\* C10: getUserTokens returns a record for a user only while a record is
\* stored for that user and now < its expires_at, and returns none once
\* now >= expires_at.
C10_RecordOnlyWhileUnexpired ==
    \A u \in Users :
        /\ getUserTokensFound(tokenStore, u, now)
              => (u \in DOMAIN tokenStore /\ JsLt(now, tokenStore[u].expires_at))
        /\ (u \in DOMAIN tokenStore /\ JsGe(now, tokenStore[u].expires_at))
              => (/\ ~getUserTokensFound(tokenStore, u, now)
                  /\ getAccessToken(tokenStore, u, now) = "null"
                  /\ getTenantId(tokenStore, u, now) = "null")

\* the record getUserTokens returns carries the three values of tokens
SameTokens(rec, tokens) ==
    /\ rec.access_token = tokens.access_token
    /\ rec.refresh_token = tokens.refresh_token
    /\ rec.tenant_id = tokens.tenant_id

\* a lifetime that is a number of seconds not above zero
NotPositive(expires_in) == expires_in.t = "number" /\ expires_in.v <= 0

\* C11 as stated: for every userId and tokens, whatever is stored before,
\* storeUserTokens followed immediately by getUserTokens returns a record
\* with the access_token, refresh_token and tenant_id of tokens.
C11_AsStated ==
    \A u \in Users, tokens \in StorableTokens :
        LET after == storeUserTokens(tokenStore, u, tokens, now, now) IN
        /\ getUserTokensFound(after, u, now)
        /\ SameTokens(after[u], tokens)

\* C11: whatever is stored before, storeUserTokens followed immediately by
\* getUserTokens returns a record with the access_token, refresh_token and
\* tenant_id of tokens, unless tokens.expires_in is a number not above zero:
\* then the record is already expired and getUserTokens returns none.
C11_StoreThenGet ==
    \A u \in Users, tokens \in StorableTokens :
        LET after == storeUserTokens(tokenStore, u, tokens, now, now) IN
        IF NotPositive(tokens.expires_in)
        THEN ~getUserTokensFound(after, u, now)
        ELSE /\ getUserTokensFound(after, u, now)
             /\ SameTokens(getUserTokensStore(after, u, now)[u], tokens)

\* POST /store-tokens has replaced the record the callback stored under the
\* email, and the lookup that followed returned the new access token
C11_Witness ==
    /\ "sub-1" \in DOMAIN tokenStore
    /\ "ann@x.io" \in DOMAIN tokenStore
    /\ tokenStore["sub-1"].access_token = "at1"
    /\ tokenStore["ann@x.io"].access_token = "at2"
    /\ tokenStore["ann@x.io"].stored_at # tokenStore["sub-1"].stored_at
    /\ lastResp.ep = "tokens/status"
    /\ <<"userId", "ann@x.io">> \in lastResp.body
    /\ <<"hasValidTokens", "at2">> \in lastResp.body

\* the records of all users but userId are the same in both stores
OthersUntouched(before, after, userId) ==
    \A v \in ((DOMAIN before) \cup (DOMAIN after)) \ {userId} :
        /\ v \in DOMAIN before
        /\ v \in DOMAIN after
        /\ after[v] = before[v]

\* C12: getUserTokens(userId) on an expired record removes that record and
\* returns none; on an unexpired or a missing record it changes nothing; it
\* never touches the record of another user; clearUserTokens(userId) removes
\* the record of userId and no other.
C12_EvictsOnlyTheExpiredRecord ==
    \A u \in Users :
        LET read == getUserTokensStore(tokenStore, u, now)
            cleared == clearUserTokens(tokenStore, u)
            expired == /\ u \in DOMAIN tokenStore
                       /\ tokenStore[u].expires_at.t = "number"
                       /\ now >= tokenStore[u].expires_at.v
        IN  /\ expired => (u \notin DOMAIN read /\ ~getUserTokensFound(tokenStore, u, now))
            /\ ~expired => read = tokenStore
            /\ OthersUntouched(tokenStore, read, u)
            /\ u \notin DOMAIN cleared
            /\ OthersUntouched(tokenStore, cleared, u)

\* a lookup found the record under the email expired and removed it, and the
\* record stored with it under the subject is still there
C12_Witness ==
    /\ lastResp.ep = "tokens/status"
    /\ <<"userId", "ann@x.io">> \in lastResp.body
    /\ <<"hasValidTokens", "false">> \in lastResp.body
    /\ "ann@x.io" \notin DOMAIN tokenStore
    /\ "sub-1" \in DOMAIN tokenStore
    /\ now > 0

\* C13: hasValidTokens(userId) is true exactly when getUserTokens(userId)
\* returns an unexpired record with a non-empty access token and false
\* otherwise, and the hasValidTokens field of GET /tokens/status is that
\* boolean.
C13_HasValidTokensIsBoolean ==
    /\ \A u \in Users :
          hasValidTokens(tokenStore, u, now) =
              IF getUserTokensFound(tokenStore, u, now) /\ Truthy(tokenStore[u].access_token)
              THEN "true" ELSE "false"
    /\ (lastResp.ep = "tokens/status" /\ lastResp.status = 200)
          => \A pair \in lastResp.body :
                pair[1] = "hasValidTokens" => pair[2] \in {"true", "false"}

\* the lifetimes, in seconds, that the writers of the store can pass
PassedLifetimes ==
    { l.v : l \in { x \in ClockLifetimes : x.t = "number" } } \cup {DefaultLifetime}

\* C14: every record satisfies expires_at = stored_at + expires_in * 1000
\* for the lifetime expires_in, in seconds, that was passed to the
\* storeUserTokens call which wrote it.
C14_ExpiryIsStoredAtPlusLifetime ==
    \A u \in DOMAIN tokenStore :
        /\ tokenStore[u].expires_at.t = "number"
        /\ \E l \in PassedLifetimes :
              tokenStore[u].expires_at.v = tokenStore[u].stored_at + l * 1000

-----------------------------------------------------------------------------
(* Properties of the persist step and of the response of POST /callback *)

\* the keys the persist step writes: the email and the subject that are present
IdentityKeys(user_info) == { k \in {user_info.email, user_info.sub} : Truthy(k) }

\* the tenant id that goes with a success response: its first tenant, or the
\* configured default
TenantOf(resp, e) ==
    IF \E t \in Tenants : <<"tenants", t>> \in resp.body
    THEN CHOOSE t \in Tenants : <<"tenants", t>> \in resp.body
    ELSE e.tenant_id

Undecodable(id_token) ==
    \/ ~id_token.present
    \/ id_token.segments # 3
    \/ ~id_token.json_ok

\* the step in which the request in slot r, whose exchange call succeeded, is answered
AnsweredAfterExchange(r) ==
    /\ req[r].pc = "tenants"
    /\ req'[r].pc = "idle"

\* the response carries the token payload of tokens
CarriesTokens(resp, tokens) ==
    /\ resp.ep = "callback"
    /\ resp.status = 200
    /\ <<"access_token", tokens.access_token>> \in resp.body
    /\ <<"refresh_token", tokens.refresh_token>> \in resp.body
    /\ <<"token_type", tokens.token_type>> \in resp.body

\* C16: when the upstream exchange succeeds and the ID token is absent or
\* cannot be decoded, POST /callback answers with success and the full token
\* payload, with a null identity and nothing stored: the decoding never turns
\* a successful exchange into an error response.
C16_UndecodableIdTokenStillSucceeds ==
    [][\A r \in Slots :
         (AnsweredAfterExchange(r) /\ Undecodable(req[r].tokens.id_token))
            => (/\ CarriesTokens(lastResp', req[r].tokens)
                /\ <<"user_info", "null">> \in lastResp'.body
                /\ <<"userId", "null">> \in lastResp'.body
                /\ tokenStore' = tokenStore)]_vars

\* a success response with a null identity, sent although the tenant
\* discovery returned a null body
C16_Witness ==
    /\ CarriesTokens(lastResp, [access_token |-> "at1", refresh_token |-> "rt1", token_type |-> "Bearer"])
    /\ <<"user_info", "null">> \in lastResp.body
    /\ <<"userId", "null">> \in lastResp.body
    /\ <<"tenants", "null">> \in lastResp.body
    /\ req[1].pc = "idle"

\* C17: when the upstream exchange succeeds, whatever the tenant discovery
\* yields (an error, a timeout, an empty or a missing list), POST /callback
\* answers with success, and when an identity is available the tokens are
\* stored with the first tenant's id if there is one and with the configured
\* default otherwise.
C17_TenantFailureNotFatal ==
    [][\A r \in Slots :
         AnsweredAfterExchange(r)
            => (/\ CarriesTokens(lastResp', req[r].tokens)
                /\ \A k \in IdentityKeys(req[r].user_info) :
                      /\ k \in DOMAIN tokenStore'
                      /\ tokenStore'[k].tenant_id = TenantOf(lastResp', env))]_vars

-----------------------------------------------------------------------------
(* Properties of the gate *)

\* the last response is that of a route behind the gate, so that gate holds
\* the bearer token and the decision of the request it answers
GateAnswered == lastResp.ep \in {"auth/me", "auth/status"}

\* the bearer token decodes to a payload with a non-empty iss and aud
WellFormed(bearer) ==
    /\ bearer.present
    /\ bearer.decodes
    /\ bearer.iss \notin {UNDEF, ""}
    /\ bearer.aud \notin {UNDEF, ""}

\* the token carries a numeric exp that time t has reached
PastExpiry(bearer, t) == bearer.exp.t = "number" /\ t >= bearer.exp.v * 1000

\* the first non-empty value of a sequence of claims, or undefined
FirstPresent(claims) ==
    IF \E i \in 1..Len(claims) : claims[i] \notin {UNDEF, ""}
    THEN claims[CHOOSE i \in 1..Len(claims) :
                   /\ claims[i] \notin {UNDEF, ""}
                   /\ \A j \in 1..(i - 1) : claims[j] \in {UNDEF, ""}]
    ELSE UNDEF

\* C18: a request reaches a handler behind authenticateToken only if its
\* bearer token decodes to a payload with non-empty iss and aud, is not
\* expired, and yields a non-empty user identifier, and then req.user.id,
\* req.user.email and req.user.sub are all non-empty; every other request is
\* answered 401 or 403 and the handler does not run.
C18_OnlyValidTokensReachHandlers ==
    GateAnswered =>
        IF lastResp.status = 200
        THEN /\ WellFormed(gate.bearer)
             /\ ~PastExpiry(gate.bearer, gate.at)
             /\ FirstPresent(<<gate.bearer.email, gate.bearer.sub, gate.bearer.xero_userid>>) # UNDEF
             /\ gate.user.id \notin {UNDEF, ""}
             /\ gate.user.email \notin {UNDEF, ""}
             /\ gate.user.sub \notin {UNDEF, ""}
        ELSE /\ lastResp.status \in {401, 403}
             /\ lastResp.body = {}

\* the request passed the iss/aud and the expiry checks
PassedChecks ==
    /\ GateAnswered
    /\ lastResp.error \notin {ERR_NO_TOKEN, ERR_FORMAT, ERR_EXPIRED}

\* C19 as stated: for every token that passes the iss/aud and expiry checks,
\* whatever its issuer, the identifier is the email if present, else the
\* subject, else xero_userid, and the request is rejected for a missing
\* identifier only when all three are absent.
C19_AsStated ==
    PassedChecks =>
        LET id == FirstPresent(<<gate.bearer.email, gate.bearer.sub, gate.bearer.xero_userid>>) IN
        IF id = UNDEF
        THEN lastResp.error \in {ERR_NO_XERO_ID, ERR_NO_ID}
        ELSE lastResp.status = 200 /\ gate.user.id = id

\* C19: for every token that passes the iss/aud and expiry checks, when the
\* issuer contains 'xero' the identifier is the email if present, else the
\* subject, else xero_userid, and the request is rejected for a missing
\* identifier only when all three are absent; for any other issuer the
\* identifier is the email if present, else the subject, and the request is
\* rejected when both are absent, whether or not xero_userid is present.
C19_IdentifierByIssuer ==
    PassedChecks =>
        LET claims == IF gate.bearer.iss = "https://identity.xero.com"
                      THEN <<gate.bearer.email, gate.bearer.sub, gate.bearer.xero_userid>>
                      ELSE <<gate.bearer.email, gate.bearer.sub>>
            id == FirstPresent(claims)
        IN  IF id = UNDEF
            THEN lastResp.error =
                    (IF gate.bearer.iss = "https://identity.xero.com"
                     THEN ERR_NO_XERO_ID ELSE ERR_NO_ID)
            ELSE lastResp.status = 200 /\ gate.user.id = id

\* a token of the upstream issuer that carries only xero_userid was let through
\* under that identifier
C19_Witness ==
    /\ GateAnswered
    /\ lastResp.status = 200
    /\ gate.bearer.iss = "https://identity.xero.com"
    /\ gate.bearer.email = UNDEF
    /\ gate.bearer.sub = UNDEF
    /\ gate.user.id = "xu-1"

\* C20: every well-formed token that carries a numeric exp is rejected with
\* 'Token has expired' when now >= exp * 1000 and is not rejected as expired
\* when now < exp * 1000.
C20_ExpiredIffPastExp ==
    (GateAnswered /\ WellFormed(gate.bearer) /\ gate.bearer.exp.t = "number")
        => (lastResp.error = ERR_EXPIRED <=> PastExpiry(gate.bearer, gate.at))

-----------------------------------------------------------------------------
(* Properties of the error responses, the sweep and the frame of POST /callback *)

OAuthErrorCodes == {"invalid_grant", "invalid_client", "unauthorized_client", "invalid_request"}

\* the step in which a POST /callback request is answered before its exchange call
RejectedNow ==
    /\ lastResp' # lastResp
    /\ lastResp'.ep = "callback"
    /\ lastResp'.status # 200
    /\ thrown' = NoError

\* the status the checks before the exchange call must give to a request
\* carrying code c: 400 for a missing, used or malformed code, 500 for
\* missing configuration
RejectionStatus(c) ==
    IF c \in {UNDEF, ""} \/ c \in usedCodes \/ Len(c) < 10 THEN 400 ELSE 500

\* the last response was sent by the catch block of POST /callback
CaughtAnswered == lastResp.ep = "callback" /\ thrown # NoError

C22_EveryRequestAnswered ==
    (req[1].pc # "idle") ~> (req[1].pc = "idle")

-----------------------------------------------------------------------------
(* Properties of the routes that call Xero *)

\* the routes that call Xero with the access token of a stored record
BusinessRoutes == {"create-xero-invoice", "chat/message"}

\* the store holds for u a record whose expiry time has not been reached
Unexpired(store, u, t) ==
    /\ u \in DOMAIN store
    /\ ~(store[u].expires_at.t = "number" /\ t >= store[u].expires_at.v)

\* the identifier the handlers derive from the user the gate attached
GateUser == FirstPresent(<<gate'.user.email, gate'.user.sub, gate'.user.id>>)

\* the step in which a route starts its downstream call
CallStartsNow == biz.pc = "idle" /\ biz'.pc = "calling"

\* the step in which a request that passed the gate is answered by a route
\* without a downstream call
AnsweredWithoutCallNow ==
    /\ biz.pc = "idle" /\ biz'.pc = "idle"
    /\ biz'.route \in BusinessRoutes
    /\ lastResp'.ep = biz'.route
    /\ (lastResp' # lastResp \/ biz' # biz \/ gate' # gate)
    /\ gate'.decision = "next"

\* a downstream call starts only with the token of the unexpired record of
\* the identifier derived from the gate
CallUsesTheRecord ==
    CallStartsNow =>
        /\ gate'.decision = "next"
        /\ biz'.userId = GateUser
        /\ Unexpired(tokenStore, GateUser, now)
        /\ biz'.token = tokenStore[GateUser].access_token
        /\ tokenStore' = tokenStore

\* C23 as the specification states it: a call is made only with the token of
\* the unexpired record of the gate-derived identifier, and every request
\* that passed the gate without such a record is answered 401
C23_AsStated ==
    [][/\ CallUsesTheRecord
       /\ (AnsweredWithoutCallNow /\ ~Unexpired(tokenStore, GateUser, now))
             => lastResp'.status = 401]_vars

\* C23: a downstream call of POST /create-xero-invoice or POST /chat/message
\* starts only when the store holds an unexpired record for the identifier
\* derived from the gate (email, else sub, else id), and carries exactly
\* that record's access token; without such a record no call starts, and
\* the answer is 401 whenever the body passed the checks that precede the
\* lookup (POST /create-xero-invoice answers 400 to a body without
\* extractedData before it looks the record up)
C23_CallOnlyWithStoredToken ==
    [][/\ CallUsesTheRecord
       /\ (AnsweredWithoutCallNow /\ ~Unexpired(tokenStore, GateUser, now))
             => lastResp'.status = (IF biz'.data = "absent" THEN 400 ELSE 401)]_vars

\* a call is pending for sub-1 with sub-1's token while ann@x.io holds another
C23_Witness ==
    /\ biz.pc = "calling"
    /\ biz.userId = "sub-1"
    /\ biz.token = "at2"
    /\ "ann@x.io" \in DOMAIN tokenStore
    /\ tokenStore["ann@x.io"].access_token = "at1"

-----------------------------------------------------------------------------
(* Properties of the sweep, of POST /store-tokens and of the frame of POST /callback *)

\* the step is a sweep tick that found something to discard: it reached a
\* request in progress, or it ended a period in which requests were answered
SweepNow ==
    \/ \E r \in Slots : Active(r) /\ ~req[r].swept /\ req'[r].swept
    \/ handled # {} /\ handled' = {}

\* C24: at every sweep tick the whole used-code set is emptied, whatever the
\* codes in it are (marked just before the tick, failed with invalid_grant,
\* exchange still in flight): right after the tick no code is reported as
\* used and the dedup check rejects none
C24_SweepEmptiesTheSet ==
    [][SweepNow => /\ usedCodes' = {}
                   /\ \A c \in Codes : ~hasBeenUsed(usedCodes', c)
                   /\ \A c \in Codes : preExchange(usedCodes', env', c) # "used"]_vars

\* a tick fired while an exchange was in flight, and the code of that
\* exchange would be exchanged again
C24_Witness ==
    /\ usedCodes = {}
    /\ \E r \in Slots :
          /\ req[r].pc = "exchange"
          /\ req[r].swept
          /\ WouldExchange(req[r].code)

\* the record of userId after the step holds the given tokens, expires
\* lifetime seconds after now, and no other record has changed
Overwritten(userId, access_token, refresh_token, lifetime) ==
    /\ lastResp'.status = 200
    /\ userId \in DOMAIN tokenStore'
    /\ tokenStore'[userId].access_token = access_token
    /\ tokenStore'[userId].refresh_token = refresh_token
    /\ tokenStore'[userId].expires_at = JsNum(now + lifetime * 1000)
    /\ OthersUntouched(tokenStore, tokenStore', userId)

\* what GET /tokens/status for userId reports right after the step: whether
\* its hasValidTokens field is anything but false
ReportsValidNext(userId) == hasValidTokens(tokenStore', userId, now') # "false"

\* the step is a POST /store-tokens that is answered
StoreTokensNow ==
    /\ lastResp'.ep = "store-tokens"
    /\ (lastResp' # lastResp \/ tokenStore' # tokenStore)

\* C25 as the specification states it: a request without userId or
\* access_token is answered 400 and changes nothing; any other overwrites
\* the record with the given tokens and the lifetime expires_in (1800
\* when absent), and GET /tokens/status then reports valid tokens
C25_AsStated ==
    [][StoreTokensNow =>
       \A userId \in ManualUserIds, access_token \in ManualAccessTokens, expires_in \in Lifetimes :
         StoreTokens(userId, access_token, "rt1", expires_in, UNDEF, 0) =>
            IF userId = UNDEF \/ access_token = UNDEF
            THEN lastResp'.status = 400 /\ tokenStore' = tokenStore
            ELSE /\ Overwritten(userId, access_token, "rt1",
                                IF expires_in.t = "number" THEN expires_in.v ELSE DefaultLifetime)
                 /\ ReportsValidNext(userId)]_vars

\* C25: POST /store-tokens without userId or access_token is answered 400
\* and leaves the store unchanged; otherwise it overwrites the record of
\* userId with the given tokens and a lifetime of expires_in seconds, 1800
\* when expires_in is absent or zero, and GET /tokens/status issued right
\* afterwards reports valid tokens unless expires_in is negative: then the
\* record is written already expired and the status reports none
C25_StoreTokensOverwrites ==
    [][StoreTokensNow =>
       \A userId \in ManualUserIds, access_token \in ManualAccessTokens, expires_in \in Lifetimes :
         StoreTokens(userId, access_token, "rt1", expires_in, UNDEF, 0) =>
            IF userId = UNDEF \/ access_token = UNDEF
            THEN lastResp'.status = 400 /\ tokenStore' = tokenStore
            ELSE LET lifetime == IF expires_in.t = "number" /\ expires_in.v # 0
                                 THEN expires_in.v ELSE DefaultLifetime
                 IN /\ Overwritten(userId, access_token, "rt1", lifetime)
                    /\ ReportsValidNext(userId) <=> (lifetime > 0)]_vars

\* tokens were injected without a lifetime, the record expires 1800 seconds
\* after it was written, and GET /tokens/status reported it
C25_Witness ==
    /\ "ann@x.io" \in DOMAIN tokenStore
    /\ tokenStore["ann@x.io"].access_token = "at2"
    /\ tokenStore["ann@x.io"].expires_at = JsNum(tokenStore["ann@x.io"].stored_at + DefaultLifetime * 1000)
    /\ lastResp.ep = "tokens/status"
    /\ lastResp.status = 200
    /\ <<"userId", "ann@x.io">> \in lastResp.body
    /\ <<"hasValidTokens", "false">> \notin lastResp.body

\* the step is taken by a POST /callback request, not by the sweep timer
RequestStepNow == \E x \in Slots : req'[x].pc # req[x].pc

\* C26: once the exchange call of a request has returned tokens for code c,
\* no later step of that request and no step of another request carrying c
\* removes c from the used-code set; only a sweep tick does
C26_AcceptedCodeStaysUsed ==
    [][\A r \in Slots :
         (req[r].pc = "tenants" /\ req[r].code \in usedCodes /\ RequestStepNow)
            => req[r].code \in usedCodes']_vars

\* the step in which a POST /callback request is answered with an error,
\* before or after its exchange call
CallbackErrorNow ==
    \/ RejectedNow
    \/ \E r \in Slots : Active(r) /\ req'[r].pc = "idle" /\ lastResp'.status # 200

\* C27: a POST /callback that is answered with an error leaves the Token
\* Store as it was, and a step of a POST /callback changes the store only
\* when it answers with success a request whose exchange returned tokens
C27_ErrorsLeaveTheStore ==
    [][/\ CallbackErrorNow => tokenStore' = tokenStore
       /\ (RequestStepNow /\ tokenStore' # tokenStore) => \E r \in Slots : SucceedsNow(r)]_vars

\* the exchange returned tokens with an identity, persisting threw, the
\* request was answered 500 and the store holds nothing
C27_Witness ==
    /\ thrown = TypeError
    /\ lastResp.ep = "callback"
    /\ lastResp.status = 500
    /\ tokenStore = EmptyStore

\* neither an email nor a subject can be taken from the id_token
NoIdentityIn(id_token) ==
    \/ Undecodable(id_token)
    \/ id_token.email \in {UNDEF, ""} /\ id_token.sub \in {UNDEF, ""}

\* C28: when the exchange succeeds and the ID token is absent, undecodable
\* or carries neither an email nor a subject, the request is answered with
\* success and userId null and the Token Store stays as it was: every
\* lookup returns what it returned before, so none returns the tokens of
\* this exchange
C28_NoIdentityStoresNothing ==
    [][\A r \in Slots :
         (AnsweredAfterExchange(r) /\ NoIdentityIn(req[r].tokens.id_token))
            => (/\ CarriesTokens(lastResp', req[r].tokens)
                /\ <<"userId", "null">> \in lastResp'.body
                /\ tokenStore' = tokenStore
                /\ \A u \in Users \cup ManualUsers :
                      getAccessToken(tokenStore', u, now') = getAccessToken(tokenStore, u, now))]_vars

\* an ID token that decodes but names nobody: the tokens went to the client
\* with userId null while the store holds no record at all
C28_Witness ==
    /\ CarriesTokens(lastResp, [access_token |-> "at1", refresh_token |-> "rt1", token_type |-> "Bearer"])
    /\ <<"user_info", "payload">> \in lastResp.body
    /\ <<"userId", "null">> \in lastResp.body
    /\ tokenStore = EmptyStore

\* the keys whose record the step writes, replaces or removes
ChangedKeys ==
    { k \in (DOMAIN tokenStore) \cup (DOMAIN tokenStore') :
        \/ k \notin DOMAIN tokenStore
        \/ k \notin DOMAIN tokenStore'
        \/ tokenStore'[k] # tokenStore[k] }

\* C29: the records under a user's email and under the same user's subject
\* are separate copies: apart from the persist step of a successful
\* callback, which writes both, every step changes the record of at most
\* one key, so a store or an eviction that names one key leaves the other
\* key's record as it was and the two can hold different access tokens
C29_KeysAreIndependent ==
    [][(\A r \in Slots : ~SucceedsNow(r)) => Cardinality(ChangedKeys) <= 1]_vars

\* the callback stored one token under both keys, a client then stored
\* another under the email only, and both records are returned by a lookup
C29_Witness ==
    /\ Unexpired(tokenStore, "ann@x.io", now)
    /\ Unexpired(tokenStore, "sub-1", now)
    /\ tokenStore["ann@x.io"].access_token # tokenStore["sub-1"].access_token
    /\ getAccessToken(tokenStore, "ann@x.io", now) = "at2"
    /\ getAccessToken(tokenStore, "sub-1", now) = "at1"

\* the step in which a POST /callback is rejected for a missing code or for
\* a code found in the used-code set
RejectedEarlyNow == RejectedNow /\ lastResp'.error \in {ERR_MISSING, ERR_USED}

\* C30: a POST /callback rejected for a missing code or for a code already
\* in the used-code set changes neither the used-code set nor the Token
\* Store and starts no exchange call; the code of every request in
\* progress that was marked stays marked
C30_RejectionChangesNothing ==
    [][RejectedEarlyNow =>
         /\ lastResp'.status = 400
         /\ usedCodes' = usedCodes
         /\ tokenStore' = tokenStore
         /\ req' = req
         /\ \A r \in Slots :
               (Active(r) /\ req[r].code \in usedCodes) => req[r].code \in usedCodes']_vars

\* a duplicate was rejected while the first request for the code is still
\* at its exchange call, and the mark of that request is in place
C30_Witness ==
    /\ lastResp.ep = "callback"
    /\ lastResp.error = ERR_USED
    /\ \E r \in Slots :
          /\ req[r].pc = "exchange"
          /\ ~req[r].swept
          /\ req[r].code = lastResp.code
          /\ req[r].code \in usedCodes

====
